---------------------------- MODULE Spec2Model ----------------------------
(***************************************************************************)
(* Model of src/src/ring_queue.rs: a fixed-capacity single-producer /      *)
(* single-consumer ring queue.  One backing allocation holds a Metadata    *)
(* block (read_index, write_index: AtomicU32) followed by capacity + 2     *)
(* item slots.                                                             *)
(*                                                                         *)
(* Memory is modelled with per-location modification orders and per-thread *)
(* views (release/acquire view semantics):                                 *)
(*   - every location keeps the sequence of values stored to it;           *)
(*   - every thread keeps, per location, the position of the oldest store  *)
(*     it may still read;                                                  *)
(*   - a Relaxed load (and a racy plain read) returns any store at or      *)
(*     after the thread's position and moves the position there;           *)
(*   - a Release store carries the storing thread's view, and an Acquire   *)
(*     load that reads it joins that view into the loading thread's view.  *)
(* The producer and the consumer run either on one thread (the tests       *)
(* basic, basic2, basic3) or on two threads (mt_test).                     *)
(*                                                                         *)
(* Spec and FairSpec run the queue of u32 items; LayoutSpec runs create    *)
(* and dispose alone over item layouts and allocator addresses; WrapSpec   *)
(* evaluates the index arithmetic alone, also for capacities around the    *)
(* modulus of the 32-bit indices.                                          *)
(***************************************************************************)
EXTENDS Integers, Sequences, FiniteSets, TLC

\* ------------------------------------------------------------------ bounds
MaxCapacity == 2        \* capacities 0 .. MaxCapacity are passed to new_ring_queue
MaxEnq == 4             \* the producer has MaxEnq items to enqueue: 0 .. MaxEnq - 1

MaxAlignLog == 5        \* item alignments 1, 2, 4, .. 2^MaxAlignLog
MaxSizeFactor == 2      \* item sizes 0, align, .. MaxSizeFactor * align
MaxAddrSteps == 16      \* the allocator hands out HeapBase + k * MetadataAlign, k <= MaxAddrSteps
MaxWrapEdge == 3        \* the index arithmetic is evaluated for capacities within MaxWrapEdge of
                        \* the u32 modulus and for indices within MaxWrapEdge of 0 and of the
                        \* last slot

Capacities == 0 .. MaxCapacity
Items == 0 .. MaxEnq - 1

\* ------------------------------------------------------- program constants
U32 == 65536                   \* modulus of AtomicU32 / `as u32` arithmetic, scaled: the code's is 2^32,
                               \* which TLC's 32-bit integers cannot hold; every index and
                               \* slot count of the model is far below either modulus
MetadataSize == 8              \* Layout::new::<Metadata>().size(): two AtomicU32
MetadataAlign == 4             \* Layout::new::<Metadata>().align()
ItemSize == 4                  \* Layout::new::<u32>().size()
ItemAlign == 4                 \* Layout::new::<u32>().align()
HeapBase == 64                 \* address the allocator hands out (a multiple of every alignment used)
USIZE == 4096                  \* modulus of usize / pointer arithmetic, scaled like U32; every
                               \* address of the model is below it

Uninit == -1                   \* indeterminate content: memory (or a local) that was never written
NoPtr == 0                     \* no backing store
None == "none"                 \* no call has returned yet

ProducerThread == 1
ThreadIds == {1, 2}

VARIABLES
  status,            \* "start" | "ready" | "panicked" | "destroyed" | "invalid_free":
                     \*   life cycle of the queue (new_ring_queue, destroy)
  cap_arg,           \* the capacity argument passed to new_ring_queue
  same_thread,       \* TRUE: producer and consumer calls are made by one thread
  item_layout,       \* Layout::new::<T>(): [size, align]
  free_addr,         \* the address std::alloc::alloc hands out next
  wrap,              \* arguments and results of the index arithmetic evaluated on its own
  heap,              \* live allocations: set of [origin, size, align]
  queue,             \* RingQueueRaw: [backing_store, capacity]
  read_index,        \* Metadata.read_index: modification order, seq of [val, rel];
                     \*   rel holds the view a Release store carries
  write_index,       \* Metadata.write_index: modification order, seq of [val, rel]
  slots,             \* slot number -> modification order (seq of item values)
  view,              \* thread id -> [ri, wi, slot, rd]: oldest readable position per location;
                     \*   rd: per slot, the number of dequeue copies out of it that
                     \*   happen-before the thread's next step
  p_pc,              \* producer position inside enqueue_item_prim
  p_loc,             \* producer locals: item, prior_write_index, next_write_index, current_read_index
  p_ret,             \* result of the last completed enqueue_item_prim call: "true" | "false" | None
  c_pc,              \* consumer position inside dequeue_item_prim
  c_loc,             \* consumer locals: read_index, next_index, write_index
  c_ret,             \* result of the last completed dequeue_item_prim call: "true" | "false" | None
  dst,               \* the consumer's destination (MaybeUninit<T>)
  accepted,          \* history: values of the enqueue calls that returned true, in order
  delivered,         \* history: values left in dst by the dequeue calls that returned true
  p_snap,            \* history: the indices and the slots when the enqueue call began that is
                     \*   running or returned false last; dropped when a call returns true
  c_snap,            \* history: read_index and dst when the dequeue call began that is
                     \*   running or returned false last; dropped when a call returns true
  p_steps,           \* history: steps taken by the current/last enqueue call
  c_steps,           \* history: steps taken by the current/last dequeue call
  streak,            \* history: enqueue calls completed since an enqueue began on an
                     \*   empty queue, no dequeue call started since; -1 when not tracking
  streak_synced,     \* history: at the streak's start the producer had observed
                     \*   every earlier dequeue
  scenario           \* history: the calls completed since new_ring_queue, recorded while
                     \*   they come in the order enqueue, enqueue, dequeue, dequeue

vars == <<status, cap_arg, same_thread, item_layout, free_addr, wrap, heap, queue, read_index, write_index, slots,
          view, p_pc, p_loc, p_ret, c_pc, c_loc, c_ret, dst, accepted, delivered,
          p_snap, c_snap, p_steps, c_steps, streak, streak_synced, scenario>>

mem_vars == <<heap, queue, read_index, write_index, slots>>
p_vars == <<p_pc, p_loc, p_ret, p_snap, p_steps>>
c_vars == <<c_pc, c_loc, c_ret, dst, c_snap, c_steps>>
hist_vars == <<accepted, delivered, streak, streak_synced, scenario>>
cfg_vars == <<status, cap_arg, same_thread, item_layout, free_addr, wrap>>


\* ------------------------------------------------------------ pure helpers
Max(a, b) == IF a >= b THEN a ELSE b
Min(a, b) == IF a <= b THEN a ELSE b
Last(h) == h[Len(h)]

\* `x as u32`
AsU32(x) == x % U32

\* usize::next_multiple_of
next_multiple_of(x, m) == ((x + m - 1) \div m) * m

\* mutant: one spare slot instead of two
indexing_adjusted_capacity_OneSpare(capacity) == capacity + 1

\* fn indexing_adjusted_capacity(capacity)
indexing_adjusted_capacity(capacity) == capacity + 2

\* let midpoint = metadata_layout.size().next_multiple_of(item_layout.align())
midpoint == next_multiple_of(MetadataSize, item_layout.align)

\* let total_size = midpoint + item_layout.size() * indexing_adjusted_capacity
total_size(capacity) == midpoint + item_layout.size * indexing_adjusted_capacity(capacity)

\* let align = metadata_layout.align().max(item_layout.align())
align == Max(MetadataAlign, item_layout.align)

\* x & y on usize
RECURSIVE BitAnd(_, _)
BitAnd(x, y) ==
  IF x = 0 \/ y = 0 THEN 0 ELSE (x % 2) * (y % 2) + 2 * BitAnd(x \div 2, y \div 2)

\* !x on usize
BitNot(x) == (USIZE - 1) - x

\* mutant: the control block's address is taken for the allocation's origin
mid_to_origin_ptr_NoRounding(mid_ptr) == (mid_ptr - MetadataSize) % USIZE

\* fn mid_to_origin_ptr: mid_ptr.map_addr(|addr| (addr - metadata_layout.size()) & !(align - 1))
mid_to_origin_ptr(mid_ptr) == BitAnd((mid_ptr - MetadataSize) % USIZE, BitNot(align - 1))

\* mutant: read_index starts one slot early
initial_read_index_OneEarly(capacity) == AsU32(indexing_adjusted_capacity(capacity) - 2)

\* let initial_read_index = indexing_adjusted_capacity - 1;  AtomicU32::new(initial_read_index as _)
initial_read_index(capacity) == AsU32(indexing_adjusted_capacity(capacity) - 1)

\* let initial_write_index = 0
initial_write_index == 0

\* mutant: the bumped index is not wrapped
next_index_NoWrap(index, capacity) == AsU32(index + 1)

\* bumped_index * (!(bumped_index == (indexing_adjusted_capacity as u32)) as u32)
next_index(index, capacity) ==
  LET bumped_index == AsU32(index + 1)
  IN  AsU32(bumped_index *
            (IF bumped_index = AsU32(indexing_adjusted_capacity(capacity)) THEN 0 ELSE 1))

\* mutant: the fullness test is an ordering test
full_GreaterEq(next_write_index, current_read_index) == next_write_index >= current_read_index

\* mutant: the fullness test compares the index enqueue loaded, not the bumped one
full_PriorIndex(next_write_index, current_read_index) ==
  next_write_index = (current_read_index + 1) % U32

\* let full = next_write_index == current_read_index
full(next_write_index, current_read_index) == next_write_index = current_read_index

\* let empty = next_index == write_index
empty(next_idx, write_idx) == next_idx = write_idx

\* mutant: the item is copied into the slot numbered by the bumped write index
write_slot_NextIndex(q, prior_write_index) ==
  q.backing_store + ((prior_write_index + 1) % indexing_adjusted_capacity(q.capacity)) * item_layout.size

\* backing_store_ptr.map_addr(|addr| addr + (prior_write_index as usize) * item_layout.size())
write_slot(q, prior_write_index) == q.backing_store + prior_write_index * item_layout.size

\* mutant: the slot numbered by the index dequeue loaded, not by the bumped one
read_slot_PreIncrement(q, next_idx) ==
  LET n == indexing_adjusted_capacity(q.capacity)
  IN  q.backing_store + ((next_idx + n - 1) % n) * item_layout.size

\* backing_store_ptr.map_addr(|addr| addr + (next_index as usize) * item_layout.size())
read_slot(q, next_idx) == q.backing_store + next_idx * item_layout.size

\* addresses of the capacity + 2 slots that follow the metadata block
SlotAddrs(q) ==
  { q.backing_store + k * item_layout.size : k \in 0 .. indexing_adjusted_capacity(q.capacity) - 1 }

\* memory orderings of the six atomic accesses
enq_write_index_load_order == "Acquire"     \* line 118
enq_read_index_load_order == "Relaxed"      \* line 122
enq_write_index_store_order == "Release"    \* line 129
deq_read_index_load_order == "Acquire"      \* line 144
deq_write_index_load_order == "Relaxed"     \* line 148
deq_read_index_store_order == "Release"     \* line 155

\* ------------------------------------------------------------ memory model
\* the thread that calls dequeue_item_prim
ConsumerThread == IF same_thread THEN ProducerThread ELSE 2

\* least upper bound of two views
Join(a, b) ==
  [ri |-> Max(a.ri, b.ri), wi |-> Max(a.wi, b.wi),
   slot |-> [k \in DOMAIN a.slot |-> Max(a.slot[k], b.slot[k])],
   rd |-> [k \in DOMAIN a.rd |-> Max(a.rd[k], b.rd[k])]]

\* positions of the modification order `hist` a thread whose view is at `pos` may read
Readable(hist, pos) == pos .. Len(hist)

\* the view of a thread after it loaded message `msg` at position `p` of index `field`
AfterLoad(order, tv, field, p, msg) ==
  LET tv1 == [tv EXCEPT ![field] = p]
  IN  IF order = "Acquire" /\ msg.rel # {}
      THEN Join(tv1, CHOOSE r \in msg.rel : TRUE)
      ELSE tv1

\* the message an atomic store of `val` appends; `tv` is the storing thread's view
Message(order, val, tv) == [val |-> val, rel |-> IF order = "Release" THEN {tv} ELSE {}]

NoLocalsP == [item |-> Uninit, prior_write_index |-> Uninit, next_write_index |-> Uninit,
              current_read_index |-> Uninit]
NoLocalsC == [read_index |-> Uninit, next_index |-> Uninit, write_index |-> Uninit]

NoSnapP == [write_index |-> <<>>, read_index |-> <<>>, slots |-> <<>>]
NoSnapC == [read_index |-> <<>>, dst |-> Uninit]

\* the queue holds no item: the newest indices satisfy dequeue's emptiness test
QueueEmpty ==
  /\ status = "ready"
  /\ empty(next_index(Last(read_index).val, queue.capacity), Last(write_index).val)

\* the view of a thread that has observed the stores of new_ring_queue and nothing else
InitialView(q) ==
  [ri |-> 1, wi |-> 1, slot |-> [s \in SlotAddrs(q) |-> 1], rd |-> [s \in SlotAddrs(q) |-> 0]]

\* no index arithmetic is being evaluated on its own
NoWrap == [capacity |-> 0, index |-> 0, next |-> Uninit, initial |-> Uninit]

\* ---------------------------------------------------------------- initial
\* before new_ring_queue: nothing is allocated, no call was made
NoQueue ==
  /\ status = "start"
  /\ heap = {}
  /\ queue = [backing_store |-> NoPtr, capacity |-> 0]
  /\ read_index = <<>>
  /\ write_index = <<>>
  /\ slots = <<>>
  /\ view = [t \in ThreadIds |-> [ri |-> 0, wi |-> 0, slot |-> <<>>, rd |-> <<>>]]
  /\ p_pc = "idle" /\ p_loc = NoLocalsP /\ p_ret = None
  /\ c_pc = "idle" /\ c_loc = NoLocalsC /\ c_ret = None
  /\ dst = Uninit
  /\ accepted = <<>> /\ delivered = <<>>
  /\ p_snap = NoSnapP /\ c_snap = NoSnapC
  /\ p_steps = 0 /\ c_steps = 0
  /\ streak = -1 /\ streak_synced = FALSE
  /\ scenario = [on |-> TRUE, calls |-> <<>>]

\* RingQueue::<u32>::new(capacity), as in basic, basic2 and mt_test
Init ==
  /\ cap_arg \in Capacities
  /\ same_thread \in BOOLEAN
  /\ item_layout = [size |-> ItemSize, align |-> ItemAlign]
  /\ free_addr = HeapBase
  /\ wrap = NoWrap
  /\ NoQueue

\* ---------------------------------------------------------- new_ring_queue
\* std::alloc::alloc(Layout::from_size_align_unchecked(total_size, align))
alloc_ring_queue_backing_store(capacity) ==
  [origin |-> free_addr, size |-> total_size(capacity), align |-> align]

\* mutant: the backing store is allocated before the capacity is checked
new_ring_queue_AllocFirst ==
  /\ status = "start"
  /\ LET a == alloc_ring_queue_backing_store(cap_arg)
         q == [backing_store |-> a.origin + midpoint, capacity |-> cap_arg]
     IN  /\ heap' = heap \cup {a}
         /\ IF cap_arg = 0
            THEN /\ status' = "panicked"
                 /\ UNCHANGED <<queue, read_index, write_index, slots, view>>
            ELSE /\ status' = "ready"
                 /\ queue' = q
                 /\ read_index' = << [val |-> initial_read_index(cap_arg), rel |-> {}] >>
                 /\ write_index' = << [val |-> initial_write_index, rel |-> {}] >>
                 /\ slots' = [s \in SlotAddrs(q) |-> <<Uninit>>]
                 /\ view' = [t \in ThreadIds |-> InitialView(q)]
  /\ UNCHANGED <<cap_arg, same_thread, item_layout, free_addr, wrap, p_vars, c_vars, hist_vars>>

\* fn new_ring_queue(metadata_layout, item_layout, capacity) -> RingQueueRaw
new_ring_queue ==
  /\ status = "start"
  /\ IF cap_arg = 0
     THEN \* panic!("Capacity must not be zero")
          /\ status' = "panicked"
          /\ UNCHANGED <<mem_vars, view>>
     ELSE LET a == alloc_ring_queue_backing_store(cap_arg)
              q == [backing_store |-> a.origin + midpoint, capacity |-> cap_arg]
          IN  /\ status' = "ready"
              /\ heap' = heap \cup {a}
              /\ queue' = q
              /\ read_index' = << [val |-> initial_read_index(cap_arg), rel |-> {}] >>
              /\ write_index' = << [val |-> initial_write_index, rel |-> {}] >>
              /\ slots' = [s \in SlotAddrs(q) |-> <<Uninit>>]
              /\ view' = [t \in ThreadIds |-> InitialView(q)]
  /\ UNCHANGED <<cap_arg, same_thread, item_layout, free_addr, wrap, p_vars, c_vars, hist_vars>>

\* fn destroy(queue, metadata_layout, item_layout).  The queue is passed by value: no call is in
\* progress, and with two threads both have finished their loops.  A dealloc whose pointer and
\* layout are not those of a live allocation is undefined behaviour ("invalid_free").
destroy ==
  /\ status = "ready"
  /\ p_pc = "idle" /\ c_pc = "idle"
  /\ same_thread \/ Len(delivered) = MaxEnq
  /\ LET origin_ptr == mid_to_origin_ptr(queue.backing_store)
         layout == [origin |-> origin_ptr, size |-> total_size(queue.capacity), align |-> align]
     IN  IF layout \in heap
         THEN /\ heap' = heap \ {layout}
              /\ status' = "destroyed"
         ELSE /\ heap' = heap
              /\ status' = "invalid_free"
  /\ UNCHANGED <<cap_arg, same_thread, item_layout, free_addr, wrap, queue, read_index,
                 write_index, slots, view, p_vars, c_vars, hist_vars>>

\* ------------------------------------------------------- enqueue_item_prim
\* history bookkeeping when an enqueue call returns
StreakAfterReturn == IF streak >= 0 THEN Min(streak + 1, queue.capacity + 2) ELSE streak

\* history bookkeeping when a call returns: `call` extends the recorded scenario or ends it
ScenarioOrder == <<"enqueue", "enqueue", "dequeue", "dequeue">>
ScenarioAfter(call) ==
  IF /\ scenario.on
     /\ Len(scenario.calls) < Len(ScenarioOrder)
     /\ ScenarioOrder[Len(scenario.calls) + 1] = call.op
  THEN [scenario EXCEPT !.calls = Append(@, call)]
  ELSE [on |-> FALSE, calls |-> <<>>]

\* for i in 0 .. N { q.enqueue_item(&i) }: the producer thread calls enqueue_item_prim with
\* its next item, again after a call that returned false; one thread makes one call at a time
EnqueueCall(item) ==
  /\ status = "ready"
  /\ p_pc = "idle"
  /\ item = Len(accepted)
  /\ same_thread => c_pc = "idle"
  /\ p_pc' = "load_write_index"
  /\ p_loc' = [NoLocalsP EXCEPT !.item = item]
  /\ p_snap' = [write_index |-> write_index, read_index |-> read_index, slots |-> slots]
  /\ p_steps' = 0
  /\ IF QueueEmpty /\ c_pc = "idle"
     THEN /\ streak' = 0
          /\ streak_synced' = (view[ProducerThread].ri = Len(read_index))
     ELSE UNCHANGED <<streak, streak_synced>>
  /\ UNCHANGED <<cfg_vars, mem_vars, view, p_ret, c_vars, accepted, delivered, scenario>>

\* lines 118-121: load write_index, compute next_write_index
EnqLoadWriteIndex(p) ==
  /\ p_pc = "load_write_index"
  /\ p \in Readable(write_index, view[ProducerThread].wi)
  /\ LET prior_write_index == write_index[p].val
     IN  p_loc' = [p_loc EXCEPT !.prior_write_index = prior_write_index,
                                !.next_write_index = next_index(prior_write_index, queue.capacity)]
  /\ view' = [view EXCEPT ![ProducerThread] =
                AfterLoad(enq_write_index_load_order, @, "wi", p, write_index[p])]
  /\ p_pc' = "load_read_index"
  /\ p_steps' = p_steps + 1
  /\ UNCHANGED <<cfg_vars, mem_vars, p_ret, p_snap, c_vars, hist_vars>>

\* mutant: the item is copied into the slot before the fullness test
EnqLoadReadIndex_CopyBeforeCheck(p) ==
  /\ p_pc = "load_read_index"
  /\ p \in Readable(read_index, view[ProducerThread].ri)
  /\ LET current_read_index == read_index[p].val
         s == write_slot(queue, p_loc.prior_write_index)
     IN  /\ slots' = [slots EXCEPT ![s] = Append(@, p_loc.item)]
         /\ view' = [view EXCEPT ![ProducerThread] =
                       [AfterLoad(enq_read_index_load_order, @, "ri", p, read_index[p])
                          EXCEPT !.slot[s] = Len(slots[s]) + 1]]
         /\ IF full(p_loc.next_write_index, current_read_index)
            THEN /\ p_pc' = "idle"
                 /\ p_ret' = "false"
                 /\ p_loc' = NoLocalsP
                 /\ streak' = StreakAfterReturn
                 /\ scenario' = ScenarioAfter([op |-> "enqueue", ret |-> "false", val |-> p_loc.item])
                 /\ UNCHANGED p_snap
            ELSE /\ p_pc' = "store"
                 /\ p_loc' = [p_loc EXCEPT !.current_read_index = current_read_index]
                 /\ UNCHANGED <<p_ret, p_snap, streak, scenario>>
  /\ p_steps' = p_steps + 1
  /\ UNCHANGED <<cfg_vars, heap, queue, read_index, write_index, c_vars, accepted, delivered,
                 streak_synced>>

\* mutant: enqueue waits inside the call until the consumer frees a slot
EnqLoadReadIndex_WaitWhileFull(p) ==
  /\ p_pc = "load_read_index"
  /\ p \in Readable(read_index, view[ProducerThread].ri)
  /\ LET current_read_index == read_index[p].val
     IN  /\ p_pc' = IF full(p_loc.next_write_index, current_read_index)
                    THEN "load_read_index" ELSE "copy"
         /\ p_loc' = [p_loc EXCEPT !.current_read_index = current_read_index]
  /\ view' = [view EXCEPT ![ProducerThread] =
                AfterLoad(enq_read_index_load_order, @, "ri", p, read_index[p])]
  /\ p_steps' = p_steps + 1
  /\ UNCHANGED <<cfg_vars, mem_vars, p_ret, p_snap, c_vars, hist_vars>>

\* lines 122-126: load read_index, return false when full
EnqLoadReadIndex(p) ==
  /\ p_pc = "load_read_index"
  /\ p \in Readable(read_index, view[ProducerThread].ri)
  /\ LET current_read_index == read_index[p].val
     IN  IF full(p_loc.next_write_index, current_read_index)
         THEN /\ p_pc' = "idle"
              /\ p_ret' = "false"
              /\ p_loc' = NoLocalsP
              /\ streak' = StreakAfterReturn
              /\ scenario' = ScenarioAfter([op |-> "enqueue", ret |-> "false", val |-> p_loc.item])
              /\ UNCHANGED p_snap
         ELSE /\ p_pc' = "copy"
              /\ p_loc' = [p_loc EXCEPT !.current_read_index = current_read_index]
              /\ UNCHANGED <<p_ret, p_snap, streak, scenario>>
  /\ view' = [view EXCEPT ![ProducerThread] =
                AfterLoad(enq_read_index_load_order, @, "ri", p, read_index[p])]
  /\ p_steps' = p_steps + 1
  /\ UNCHANGED <<cfg_vars, mem_vars, c_vars, accepted, delivered, streak_synced>>

\* lines 127-128: copy the item into the slot numbered by the prior write index
EnqCopy ==
  /\ p_pc = "copy"
  /\ LET s == write_slot(queue, p_loc.prior_write_index)
     IN  /\ slots' = [slots EXCEPT ![s] = Append(@, p_loc.item)]
         /\ view' = [view EXCEPT ![ProducerThread].slot[s] = Len(slots[s]) + 1]
  /\ p_pc' = "store"
  /\ p_steps' = p_steps + 1
  /\ UNCHANGED <<cfg_vars, heap, queue, read_index, write_index, p_loc, p_ret, p_snap,
                 c_vars, hist_vars>>

\* lines 129-131: publish next_write_index, return true
EnqStore ==
  /\ p_pc = "store"
  /\ LET tv == [view[ProducerThread] EXCEPT !.wi = Len(write_index) + 1]
     IN  /\ write_index' = Append(write_index,
                                  Message(enq_write_index_store_order, p_loc.next_write_index, tv))
         /\ view' = [view EXCEPT ![ProducerThread] = tv]
  /\ p_pc' = "idle"
  /\ p_ret' = "true"
  /\ p_steps' = p_steps + 1
  /\ accepted' = Append(accepted, p_loc.item)
  /\ streak' = StreakAfterReturn
  /\ scenario' = ScenarioAfter([op |-> "enqueue", ret |-> "true", val |-> p_loc.item])
  /\ p_loc' = NoLocalsP
  /\ p_snap' = NoSnapP
  /\ UNCHANGED <<cfg_vars, heap, queue, read_index, slots, c_vars, delivered, streak_synced>>

\* ------------------------------------------------------- dequeue_item_prim
\* the consumer thread calls dequeue_item_prim(&q, .., &mut out)
DequeueCall ==
  /\ status = "ready"
  /\ c_pc = "idle"
  /\ same_thread => p_pc = "idle"
  /\ c_pc' = "load_read_index"
  /\ c_loc' = NoLocalsC
  /\ c_snap' = [read_index |-> read_index, dst |-> dst]
  /\ c_steps' = 0
  /\ streak' = -1
  /\ streak_synced' = FALSE
  /\ UNCHANGED <<cfg_vars, mem_vars, view, p_vars, c_ret, dst, accepted, delivered, scenario>>

\* lines 144-147: load read_index, compute next_index
DeqLoadReadIndex(p) ==
  /\ c_pc = "load_read_index"
  /\ p \in Readable(read_index, view[ConsumerThread].ri)
  /\ LET r == read_index[p].val
     IN  c_loc' = [c_loc EXCEPT !.read_index = r,
                                !.next_index = next_index(r, queue.capacity)]
  /\ view' = [view EXCEPT ![ConsumerThread] =
                AfterLoad(deq_read_index_load_order, @, "ri", p, read_index[p])]
  /\ c_pc' = "load_write_index"
  /\ c_steps' = c_steps + 1
  /\ UNCHANGED <<cfg_vars, mem_vars, p_vars, c_ret, dst, c_snap, hist_vars>>

\* mutant: the slot is copied into the destination before the emptiness test
DeqLoadWriteIndex_CopyBeforeCheck(p) ==
  /\ c_pc = "load_write_index"
  /\ p \in Readable(write_index, view[ConsumerThread].wi)
  /\ LET w == write_index[p].val
         s == read_slot(queue, c_loc.next_index)
     IN  /\ dst' = slots[s][view[ConsumerThread].slot[s]]
         /\ IF empty(c_loc.next_index, w)
            THEN /\ c_pc' = "idle"
                 /\ c_ret' = "false"
                 /\ c_loc' = NoLocalsC
                 /\ scenario' = ScenarioAfter([op |-> "dequeue", ret |-> "false", val |-> dst])
            ELSE /\ c_pc' = "copy"
                 /\ c_loc' = [c_loc EXCEPT !.write_index = w]
                 /\ UNCHANGED <<c_ret, scenario>>
  /\ view' = [view EXCEPT ![ConsumerThread] =
                AfterLoad(deq_write_index_load_order, @, "wi", p, write_index[p])]
  /\ c_steps' = c_steps + 1
  /\ UNCHANGED <<cfg_vars, mem_vars, p_vars, c_snap, accepted, delivered, streak,
                 streak_synced>>

\* lines 148-152: load write_index, return false when empty
DeqLoadWriteIndex(p) ==
  /\ c_pc = "load_write_index"
  /\ p \in Readable(write_index, view[ConsumerThread].wi)
  /\ LET w == write_index[p].val
     IN  IF empty(c_loc.next_index, w)
         THEN /\ c_pc' = "idle"
              /\ c_ret' = "false"
              /\ c_loc' = NoLocalsC
              /\ scenario' = ScenarioAfter([op |-> "dequeue", ret |-> "false", val |-> dst])
         ELSE /\ c_pc' = "copy"
              /\ c_loc' = [c_loc EXCEPT !.write_index = w]
              /\ UNCHANGED <<c_ret, scenario>>
  /\ view' = [view EXCEPT ![ConsumerThread] =
                AfterLoad(deq_write_index_load_order, @, "wi", p, write_index[p])]
  /\ c_steps' = c_steps + 1
  /\ UNCHANGED <<cfg_vars, mem_vars, p_vars, dst, c_snap, accepted, delivered, streak,
                 streak_synced>>

\* lines 153-154: copy the slot numbered by next_index into the destination; the plain read
\* is ordered after no store of the producer that the consumer's view does not cover
DeqCopy(p) ==
  /\ c_pc = "copy"
  /\ LET s == read_slot(queue, c_loc.next_index)
     IN  /\ p \in Readable(slots[s], view[ConsumerThread].slot[s])
         /\ dst' = slots[s][p]
         /\ view' = [view EXCEPT ![ConsumerThread].slot[s] = p,
                                 ![ConsumerThread].rd[s] = @ + 1]
  /\ c_pc' = "store"
  /\ c_steps' = c_steps + 1
  /\ UNCHANGED <<cfg_vars, mem_vars, p_vars, c_loc, c_ret, c_snap, hist_vars>>

\* lines 155-157: publish next_index, return true
DeqStore ==
  /\ c_pc = "store"
  /\ LET tv == [view[ConsumerThread] EXCEPT !.ri = Len(read_index) + 1]
     IN  /\ read_index' = Append(read_index,
                                 Message(deq_read_index_store_order, c_loc.next_index, tv))
         /\ view' = [view EXCEPT ![ConsumerThread] = tv]
  /\ c_pc' = "idle"
  /\ c_ret' = "true"
  /\ c_steps' = c_steps + 1
  /\ delivered' = Append(delivered, dst)
  /\ scenario' = ScenarioAfter([op |-> "dequeue", ret |-> "true", val |-> dst])
  /\ c_loc' = NoLocalsC
  /\ c_snap' = NoSnapC
  /\ UNCHANGED <<cfg_vars, heap, queue, write_index, slots, p_vars, dst,
                 accepted, streak, streak_synced>>

\* ------------------------------------------------------------ specification
MaxPos == MaxEnq + 1      \* longest modification order: the initial store and MaxEnq more

ProducerStep ==
  \/ \E p \in 1 .. MaxPos : EnqLoadWriteIndex(p)
  \/ \E p \in 1 .. MaxPos : EnqLoadReadIndex(p)
  \/ EnqCopy
  \/ EnqStore

ConsumerStep ==
  \/ \E p \in 1 .. MaxPos : DeqLoadReadIndex(p)
  \/ \E p \in 1 .. MaxPos : DeqLoadWriteIndex(p)
  \/ \E p \in 1 .. MaxPos : DeqCopy(p)
  \/ DeqStore

Next ==
  \/ new_ring_queue
  \/ \E item \in Items : EnqueueCall(item)
  \/ ProducerStep
  \/ DequeueCall
  \/ ConsumerStep
  \/ destroy

Spec == Init /\ [][Next]_vars

\* Both threads keep running, and a store becomes visible to the other thread in finite time:
\* a thread that keeps loading an index eventually loads its newest value.
FairSpec ==
  /\ Spec
  /\ WF_vars(new_ring_queue)
  /\ WF_vars(\E item \in Items : EnqueueCall(item))
  /\ WF_vars(ProducerStep)
  /\ WF_vars(DequeueCall)
  /\ WF_vars(ConsumerStep)
  /\ SF_vars(EnqLoadReadIndex(Len(read_index)))
  /\ SF_vars(DeqLoadWriteIndex(Len(write_index)))


\* ------------------------------------------------- create and dispose alone
RECURSIVE Pow2(_)
Pow2(n) == IF n = 0 THEN 1 ELSE 2 * Pow2(n - 1)

\* Layout::new::<T>() for item types T: the alignment is a power of two, the size a multiple of it
ItemLayouts ==
  { [size |-> k * Pow2(e), align |-> Pow2(e)] : k \in 0 .. MaxSizeFactor, e \in 0 .. MaxAlignLog }

\* addresses std::alloc::alloc may hand out
HeapAddrs == { HeapBase + k * MetadataAlign : k \in 0 .. MaxAddrSteps }

\* RingQueue::<T>::new(capacity) for any item type T; the allocator returns an address that is
\* a multiple of the alignment it was asked for
LayoutInit ==
  /\ cap_arg \in Capacities
  /\ same_thread = TRUE
  /\ item_layout \in ItemLayouts
  /\ free_addr \in { a \in HeapAddrs : a % align = 0 }
  /\ wrap = NoWrap
  /\ NoQueue

\* create, then dispose of the untouched queue (as basic2 and basic3 end)
LayoutNext ==
  \/ new_ring_queue
  \/ destroy

LayoutSpec == LayoutInit /\ [][LayoutNext]_vars

\* ------------------------------------------------- index arithmetic alone
\* capacities new_ring_queue accepts (a zero-sized or small item type makes the allocation
\* succeed for any of them): small ones, and those around the modulus of the u32 indices
WrapCapacities == (1 .. MaxCapacity) \cup (U32 - 1 - MaxWrapEdge .. U32 - 1 + MaxWrapEdge)

\* slot numbers of a queue of this capacity that an AtomicU32 can hold: the first and the last few
WrapIndices(capacity) ==
  { i \in 0 .. Min(capacity + 1, U32 - 1) : i <= MaxWrapEdge \/ i >= capacity + 1 - MaxWrapEdge }

WrapInit ==
  /\ cap_arg \in WrapCapacities
  /\ same_thread = TRUE
  /\ item_layout = [size |-> ItemSize, align |-> ItemAlign]
  /\ free_addr = HeapBase
  /\ \E i \in WrapIndices(cap_arg) :
        wrap = [capacity |-> cap_arg, index |-> i, next |-> Uninit, initial |-> Uninit]
  /\ NoQueue

\* new_ring_queue, lines 78-82: AtomicU32::new(initial_read_index as _)
WrapInitialReadIndex ==
  /\ wrap.initial = Uninit
  /\ wrap' = [wrap EXCEPT !.initial = initial_read_index(wrap.capacity)]
  /\ UNCHANGED <<status, cap_arg, same_thread, item_layout, free_addr, mem_vars, view,
                 p_vars, c_vars, hist_vars>>

\* enqueue_item_prim, lines 118-121, and dequeue_item_prim, lines 144-147: the next index
WrapNextIndex ==
  /\ wrap.next = Uninit
  /\ wrap' = [wrap EXCEPT !.next = next_index(wrap.index, wrap.capacity)]
  /\ UNCHANGED <<status, cap_arg, same_thread, item_layout, free_addr, mem_vars, view,
                 p_vars, c_vars, hist_vars>>

WrapNext ==
  \/ WrapInitialReadIndex
  \/ WrapNextIndex

WrapSpec == WrapInit /\ [][WrapNext]_vars

\* ------------------------------------------------------------------ claims
IsPrefix(a, b) == Len(a) <= Len(b) /\ \A k \in 1 .. Len(a) : a[k] = b[k]

\* the items 0 .. n-1 in order
Iota(n) == [k \in 1 .. n |-> k - 1]

\* C1: FIFO under concurrency.  At every moment the values delivered by the dequeue calls that
\* returned true are a prefix of the values accepted by the enqueue calls that returned true.
C1_FifoPrefix == IsPrefix(delivered, accepted)

\* the same when one thread makes every call (program order): this does hold
FifoPrefix_OneThread == same_thread => IsPrefix(delivered, accepted)

\* C3: round trip.  A dequeue call that has just returned true left in its destination the value
\* of the item it removed: the k-th successful dequeue, the k-th accepted value.
C3_RoundTrip ==
  (c_pc = "idle" /\ c_ret = "true") =>
     /\ Len(delivered) <= Len(accepted)
     /\ dst = accepted[Len(delivered)]


\* an enqueue call of a streak has just returned
StreakCallReturned == status = "ready" /\ p_pc = "idle" /\ streak >= 1

ExactlyCapacity_UnorderedDequeues ==
  StreakCallReturned => (p_ret = "true" <=> streak <= queue.capacity)

Call(k) == scenario.calls[k]

\* the state new_ring_queue(.., 1) leaves: three slots, write_index = 0, read_index = 2
CreatedWithCapacity1 ==
  /\ Cardinality(DOMAIN slots) = 3
  /\ write_index[1].val = 0
  /\ read_index[1].val = 2

\* C4: capacity-1 boundary.  After new_ring_queue(1) (3 slots, write_index = 0, read_index = 2),
\* when the calls enqueue, enqueue, dequeue, dequeue are made one after the other (in program
\* order, by one thread): the first enqueue returns true, the second false, the first dequeue
\* returns true and yields the value of the first enqueue, and the second dequeue returns false.
C4_Capacity1Boundary ==
  (status = "ready" /\ queue.capacity = 1) =>
     /\ CreatedWithCapacity1
     /\ (same_thread /\ scenario.on) =>
          /\ Len(scenario.calls) >= 1 => Call(1).ret = "true"
          /\ Len(scenario.calls) >= 2 => Call(2).ret = "false"
          /\ Len(scenario.calls) >= 3 => Call(3).ret = "true" /\ Call(3).val = Call(1).val
          /\ Len(scenario.calls) >= 4 => Call(4).ret = "false"

\* C4 witness: on a queue of capacity 1 one thread has completed all four calls of the scenario.
C4_Witness ==
  /\ status = "ready" /\ queue.capacity = 1
  /\ same_thread /\ scenario.on
  /\ Len(scenario.calls) = 4

\* an enqueue call returns false in this step
EnqueueReturnsFalse == p_pc # "idle" /\ p_pc' = "idle" /\ p_ret' = "false"

\* after an enqueue call that returned false, write_index and every slot are as when it began
C5_FullEnqueueInv ==
  (p_pc = "idle" /\ p_ret = "false") =>
     /\ write_index = p_snap.write_index
     /\ slots = p_snap.slots

\* C5: an enqueue call that found the queue full returned false and changed nothing: write_index
\* and every slot are as they were when the call began; read_index is as it was when the call
\* began unless another thread's dequeue stored to it meanwhile, and no step of an enqueue call
\* stores to read_index.
C5_FullEnqueueNoEffect ==
  /\ []C5_FullEnqueueInv
  /\ [][EnqueueReturnsFalse => (same_thread => read_index' = p_snap.read_index)]_vars
  /\ [][ProducerStep => UNCHANGED <<read_index, heap, queue>>]_vars

\* C5 witness: a queue holding `capacity` items on which an enqueue call has just returned false.
C5_Witness ==
  /\ p_pc = "idle" /\ p_ret = "false"
  /\ Len(accepted) - Len(delivered) = queue.capacity

\* after a dequeue call that returned false, read_index and the destination are as when it began
C6_EmptyDequeueInv ==
  (c_pc = "idle" /\ c_ret = "false") =>
     /\ read_index = c_snap.read_index
     /\ dst = c_snap.dst

\* C6: a dequeue call that found the queue empty returned false and changed nothing: read_index
\* and the caller's destination are as they were when the call began, and no step of a dequeue
\* call stores to write_index or to a slot.
C6_EmptyDequeueNoEffect ==
  /\ []C6_EmptyDequeueInv
  /\ [][ConsumerStep => UNCHANGED <<write_index, slots, heap, queue>>]_vars

\* C6 witness: a dequeue call has just returned false on a queue that was filled and drained
\* before, so the destination holds a value.
C6_Witness ==
  /\ c_pc = "idle" /\ c_ret = "false"
  /\ Len(delivered) >= 1
  /\ Len(delivered) = Len(accepted)
  /\ dst # Uninit

\* no enqueue call has begun since new_ring_queue returned
FreshQueue == status = "ready" /\ p_pc = "idle" /\ p_ret = None

\* C7: new_ring_queue(0) fails before anything is allocated or initialised (no queue handle, no
\* backing allocation, no metadata); for every capacity >= 1 it does not fail, allocates exactly
\* one backing store and yields an empty queue of that capacity.
C7_CreateZeroFails ==
  /\ cap_arg = 0 => status # "ready"
  /\ cap_arg >= 1 => status # "panicked"
  /\ status = "panicked" =>
       /\ heap = {}
       /\ queue.backing_store = NoPtr
       /\ read_index = <<>> /\ write_index = <<>> /\ slots = <<>>
  /\ status = "ready" =>
       /\ Cardinality(heap) = 1
       /\ queue.backing_store # NoPtr
       /\ queue.capacity = cap_arg
  /\ FreshQueue => QueueEmpty

\* C7 witness: new_ring_queue(0) has panicked.
C7_Witness == status = "panicked" /\ cap_arg = 0

\* the number of steps enqueue_item_prim and dequeue_item_prim take at most: two loads, the copy,
\* the store
CallSteps == Cardinality({"load_write_index", "load_read_index", "copy", "store"})

\* C10: enqueue and dequeue are non-blocking.  A call in progress can always take its next step,
\* whatever the queue's state and wherever the other thread stands (no step waits for the other
\* thread), and it returns within CallSteps of its own steps.
C10_NonBlocking ==
  /\ p_steps <= CallSteps /\ c_steps <= CallSteps
  /\ p_pc # "idle" => p_steps < CallSteps /\ ENABLED ProducerStep
  /\ c_pc # "idle" => c_steps < CallSteps /\ ENABLED ConsumerStep

\* C10 witness: an enqueue call is in progress on a full queue while the other thread stands in
\* the middle of a dequeue call.
C10_Witness ==
  /\ ~same_thread
  /\ p_pc = "load_read_index"
  /\ c_pc = "store"
  /\ Len(accepted) - Len(delivered) = queue.capacity


\* the first `capacity` enqueue calls all return true: a call returns false only once the
\* producer has had `capacity` items accepted
NoRetryWithinCapacity == (p_pc = "idle" /\ p_ret = "false") => Len(accepted) >= queue.capacity

\* C8: when the producer enqueues no more items than the queue's capacity, every one of its calls
\* returns true under every interleaving with the dequeuing consumer, and the consumer receives
\* exactly those items in enqueue order.
C8_WithinCapacity ==
  /\ NoRetryWithinCapacity
  /\ \A k \in 1 .. Len(delivered) : k <= queue.capacity => delivered[k] = k - 1

\* the stress scenario is running: the queue exists and the producer and the consumer are two threads
StressRunning == status = "ready" /\ ~same_thread

\* the consumer has received all MaxEnq items
StressDone == Len(delivered) = MaxEnq

\* progress of the stress scenario: the consumer eventually has received all MaxEnq items
StressProgress == StressRunning ~> StressDone

\* C9: stress scenario.  With the producer enqueuing 0 .. MaxEnq-1 (again after a full queue) and
\* the consumer dequeuing (again after an empty queue), both scheduled fairly, the consumer
\* eventually has received MaxEnq items, and the received sequence is 0, 1, .., MaxEnq-1.
C9_Stress ==
  /\ StressProgress
  /\ [](StressRunning /\ StressDone => delivered = Iota(MaxEnq))

\* C9, the final result alone: once the consumer has received MaxEnq items they are 0 .. MaxEnq-1.
C9_StressOrder == (StressRunning /\ StressDone) => delivered = Iota(MaxEnq)


\* create has succeeded and dispose has not been called: the one live allocation is the block the
\* allocator returned, of the size and alignment it was asked for, and the control block and the
\* slots lie inside it with the control block immediately before the first slot
Allocated ==
  /\ heap = { [origin |-> free_addr, size |-> total_size(cap_arg), align |-> align] }
  /\ free_addr % align = 0
  /\ queue.backing_store - MetadataSize >= free_addr
  /\ queue.backing_store % item_layout.align = 0
  /\ queue.backing_store + item_layout.size * (cap_arg + 2) = free_addr + total_size(cap_arg)

\* C11: dispose frees exactly what create allocated.  For every capacity >= 1 and every item
\* size and alignment (also an item alignment larger than the control block, where padding
\* precedes the control block), create followed by dispose passes to the deallocator the origin
\* address, total size and alignment of the allocation made at create (never an invalid free),
\* once (the queue cannot be disposed of again), and no allocation stays live.
C11_DisposeFreesAllocation ==
  /\ status # "invalid_free"
  /\ status = "ready" => Allocated /\ mid_to_origin_ptr(queue.backing_store) = free_addr
  /\ status = "destroyed" => heap = {} /\ ~ENABLED destroy

\* C11 witness: a queue whose item alignment exceeds the control block's size, so that padding
\* precedes the control block, has been created and disposed of.
C11_Witness ==
  /\ status = "destroyed"
  /\ cap_arg >= 1
  /\ item_layout.align > MetadataSize
  /\ queue.backing_store - MetadataSize > free_addr

\* the slot the producer's copy (lines 127-128) is writing
ProducerSlot == write_slot(queue, p_loc.prior_write_index)

\* the slot the consumer's copy (lines 153-154) is reading
ConsumerSlot == read_slot(queue, c_loc.next_index)

\* the newest content of slot s is no item, or an item that a dequeue call has removed
Dequeued(s) == Last(slots[s]) = Uninit \/ Last(slots[s]) < Len(delivered)

\* C12: slot exclusivity.  With the slot copy a step of its own between the index load and the
\* index store, in every reachable state of a producer and a consumer running concurrently the
\* producer is not copying into the slot the consumer is copying out of, and the slot the producer
\* is about to overwrite holds no item that has not been dequeued.
C12_SlotExclusivity ==
  /\ (p_pc = "copy" /\ c_pc = "copy") => ProducerSlot # ConsumerSlot
  /\ p_pc = "copy" => Dequeued(ProducerSlot)

\* C12 witness: on two threads the producer and the consumer are both inside their slot copy.
C12_Witness ==
  /\ ~same_thread
  /\ p_pc = "copy" /\ c_pc = "copy"
  /\ Len(delivered) >= 1

\* the producer is about to overwrite a slot that held an item before (the ring has wrapped)
SlotReuse == p_pc = "copy" /\ Last(slots[ProducerSlot]) # Uninit

\* C13: whenever a dequeue goes on to read a slot, the producer's write of that slot's bytes
\* happens-before the consumer's read of them: the consumer's view covers the newest write to the
\* slot.  This is what an acquire load of write_index, paired with the release store at the end
\* of enqueue, establishes.
C13_WriteHappensBeforeRead ==
  c_pc = "copy" => view[ConsumerThread].slot[ConsumerSlot] = Len(slots[ConsumerSlot])

\* C14: whenever an enqueue goes on to overwrite a slot, every read the consumer made of that
\* slot happens-before the overwrite: the producer's view covers one dequeue copy for each
\* earlier write to the slot.  This is what an acquire load of read_index, paired with the
\* release store at the end of dequeue, establishes.
C14_ReadHappensBeforeOverwrite ==
  p_pc = "copy" => view[ProducerThread].rd[ProducerSlot] = Len(slots[ProducerSlot]) - 1

\* the number of items the queue holds: accepted and not yet removed by a completed dequeue
LiveItems == Len(accepted) - Len(delivered)

\* the producer's last load of read_index returned a value the consumer published earlier, not
\* the newest one
StaleReadIndex == view[ProducerThread].ri < Len(read_index)

\* this step is enqueue's load of read_index (line 122)
EnqLoadsReadIndex == p_pc = "load_read_index" /\ p_pc' # "load_read_index"

\* an enqueue that went on to its copy after observing a stale read_index writes a slot that
\* holds no undequeued item and that the consumer is not reading
C15_StaleWriteSafe ==
  (p_pc = "copy" /\ StaleReadIndex) =>
     /\ Dequeued(ProducerSlot)
     /\ c_pc = "copy" => ProducerSlot # ConsumerSlot

\* C15: an enqueue that observes a stale read_index (a value the consumer published earlier) can
\* differ from one that observes the newest value only by returning false although a slot is
\* free: if it goes on, the queue has room and the slot it writes holds no undequeued item and is
\* not being read by the consumer; if it returns false it has changed nothing; and a retry after
\* a false return that observes the newest read_index while the queue has room goes on to
\* enqueue.
C15_StaleReadIndexIsConservative ==
  /\ []C15_StaleWriteSafe
  /\ [][(EnqLoadsReadIndex /\ StaleReadIndex' /\ p_pc' = "copy") => LiveItems < queue.capacity]_vars
  /\ [][(EnqLoadsReadIndex /\ StaleReadIndex' /\ p_pc' = "idle") =>
          (p_ret' = "false" /\ UNCHANGED <<read_index, write_index, slots>>)]_vars
  /\ [][(EnqLoadsReadIndex /\ p_ret = "false" /\ ~StaleReadIndex' /\ LiveItems < queue.capacity) =>
          p_pc' = "copy"]_vars

\* C15 witness: an enqueue call returned false although the queue had room during the whole call
\* (no dequeue completed since the call began): its load of read_index was stale.
C15_Witness ==
  /\ p_pc = "idle" /\ p_ret = "false"
  /\ StaleReadIndex
  /\ Len(p_snap.read_index) = Len(read_index)
  /\ LiveItems < queue.capacity

\* a retry after a false return has observed the newest read_index on a queue with room and has
\* gone on to its copy
RetrySucceeds ==
  /\ p_pc = "copy" /\ p_ret = "false"
  /\ ~StaleReadIndex
  /\ ~same_thread

\* an enqueue has gone on to its copy after observing the initial read_index although the
\* consumer has published a newer one (reachable)
StaleButGoesOn == p_pc = "copy" /\ StaleReadIndex /\ view[ProducerThread].ri = 1

\* the newest values of the two indices, and the slot count
CurrentWriteIndex == Last(write_index).val
CurrentReadIndex == Last(read_index).val
SlotCount == queue.capacity + 2

\* C16: sentinel gap.  In every reachable state of a queue of capacity C >= 1 with N = C + 2
\* slots: write_index # read_index; the number of live items is (write_index - read_index - 1)
\* mod N and lies in 0 .. C; the queue is empty exactly when write_index = (read_index + 1) mod N
\* and full exactly when read_index = (write_index + 1) mod N; and it is never both.
C16_SentinelGap ==
  status = "ready" =>
     LET w == CurrentWriteIndex
         r == CurrentReadIndex
         N == SlotCount
         isEmpty == w = (r + 1) % N
         isFull == r = (w + 1) % N
     IN  /\ queue.capacity >= 1
         /\ w # r
         /\ LiveItems = (w - r - 1 + N) % N
         /\ LiveItems \in 0 .. queue.capacity
         /\ LiveItems = 0 <=> isEmpty
         /\ LiveItems = queue.capacity <=> isFull
         /\ ~(isEmpty /\ isFull)

\* C16 witness: after both indices have gone round the ring the queue is full again.
C16_Witness ==
  /\ status = "ready"
  /\ Len(delivered) >= 2
  /\ LiveItems = queue.capacity
  /\ CurrentWriteIndex < CurrentReadIndex

\* every index value v is a slot number
InRange(v) == v \in 0 .. SlotCount - 1

\* the slot at address s lies inside the backing allocation, behind the control block
InsideAllocation(s) ==
  /\ s \in SlotAddrs(queue)
  /\ \A a \in heap : /\ s >= a.origin + MetadataSize
                     /\ s + item_layout.size <= a.origin + a.size

\* C17: index range.  After create and after any sequence of enqueue and dequeue calls, however
\* interleaved and whatever they return, every value read_index and write_index have held lies
\* in 0 .. capacity + 1, so do the indices each call computes, and every slot address an
\* operation computes lies inside the array of capacity + 2 slots.
C17_IndexRange ==
  status = "ready" =>
     /\ \A k \in 1 .. Len(read_index) : InRange(read_index[k].val)
     /\ \A k \in 1 .. Len(write_index) : InRange(write_index[k].val)
     /\ p_pc \in {"load_read_index", "copy", "store"} =>
          InRange(p_loc.prior_write_index) /\ InRange(p_loc.next_write_index)
     /\ c_pc \in {"load_write_index", "copy", "store"} =>
          InRange(c_loc.read_index) /\ InRange(c_loc.next_index)
     /\ p_pc = "copy" => InsideAllocation(ProducerSlot)
     /\ c_pc = "copy" => InsideAllocation(ConsumerSlot)

\* C17 witness: write_index has wrapped to 0, read_index has gone once round the ring, and the
\* producer is copying into the first slot again.
C17_Witness ==
  /\ status = "ready"
  /\ Len(write_index) > 1 /\ CurrentWriteIndex = 0
  /\ Len(read_index) > SlotCount /\ CurrentReadIndex = SlotCount - 1
  /\ p_pc = "copy" /\ ProducerSlot = queue.backing_store

\* C18: the branch-free wrap-around is a modulo.  For every capacity >= 1 that create accepts
\* and every index i in 0 .. capacity + 1 held in a u32, the next index enqueue and dequeue
\* compute, (i + 1) * (1 if i + 1 # slot count as u32, else 0), equals (i + 1) mod (capacity + 2),
\* and the initial read_index, stored as a u32, equals capacity + 1.
C18_WrapIsModulo ==
  /\ wrap.next # Uninit => wrap.next = (wrap.index + 1) % (wrap.capacity + 2)
  /\ wrap.initial # Uninit => wrap.initial = wrap.capacity + 1

\* C18 for the capacities whose slot count fits the u32 indices: this does hold
WrapIsModulo_SlotCountFits ==
  wrap.capacity + 2 <= U32 => C18_WrapIsModulo

\* the index arithmetic has been evaluated at the wrap-around of a queue whose slot count fits
WrapEvaluated ==
  /\ wrap.capacity + 2 <= U32
  /\ wrap.index = wrap.capacity + 1
  /\ wrap.next = 0
  /\ wrap.initial = wrap.capacity + 1

\* the atomic bounded FIFO the queue implements: the accepted items no dequeue has removed yet
AbstractQueue == SubSeq(accepted, Len(delivered) + 1, Len(accepted))

\* the steps at which a call takes effect
EnqueueTakesEffect == p_pc = "store" /\ p_pc' = "idle"
DequeueTakesEffect == c_pc = "store" /\ c_pc' = "idle"
EnqueueRefused == EnqLoadsReadIndex /\ p_pc' = "idle"
DequeueRefused == c_pc = "load_write_index" /\ c_pc' = "idle"

\* the load this step made returned the newest value of the index (an atomic access)
ReadIndexLoadedAtomically == view'[ProducerThread].ri = Len(read_index)
WriteIndexLoadedAtomically == view'[ConsumerThread].wi = Len(write_index)

\* the occupancy half of C19: the FIFO never exceeds the capacity, an enqueue takes effect only
\* on a FIFO with room, a dequeue only on a non-empty one, and a call whose load was atomic is
\* refused only by a FIFO holding exactly `capacity` items (enqueue) or none (dequeue)
Linearizable_Occupancy ==
  /\ [](status = "ready" => Len(AbstractQueue) <= queue.capacity)
  /\ [][EnqueueTakesEffect =>
          /\ Len(AbstractQueue) < queue.capacity
          /\ AbstractQueue' = Append(AbstractQueue, p_loc.item)]_vars
  /\ [][DequeueTakesEffect =>
          /\ AbstractQueue # <<>>
          /\ AbstractQueue' = Tail(AbstractQueue)]_vars
  /\ [][(EnqueueRefused /\ ReadIndexLoadedAtomically) =>
          (Len(AbstractQueue) = queue.capacity /\ p_ret' = "false")]_vars
  /\ [][(DequeueRefused /\ WriteIndexLoadedAtomically) =>
          (AbstractQueue = <<>> /\ c_ret' = "false")]_vars
  /\ [][(~EnqueueTakesEffect /\ ~DequeueTakesEffect) => UNCHANGED AbstractQueue]_vars

\* C19: linearizability.  The queue refines an atomic bounded FIFO of capacity C: an enqueue
\* takes effect at its store of write_index, appending its item to a FIFO with room, or, when it
\* returns false, at its load of read_index; a dequeue takes effect at its store of read_index,
\* removing the FIFO's head and returning it, or, when it returns false, at its load of
\* write_index; with atomic index loads enqueue returns false only on a FIFO holding exactly C
\* items and dequeue only on an empty one.
C19_Linearizable ==
  /\ Linearizable_Occupancy
  /\ [][DequeueTakesEffect => (AbstractQueue # <<>> /\ dst = Head(AbstractQueue))]_vars

\* the address of the slot numbered k
SlotNumbered(k) == queue.backing_store + k * item_layout.size

\* the slots this step stores to, and the slots this step's thread `t` reads
SlotsWritten == { s \in DOMAIN slots : slots'[s] # slots[s] }
SlotsRead(t) == { s \in DOMAIN slots : view'[t].rd[s] # view[t].rd[s] }

\* this step is the slot copy of enqueue (lines 127-128) / of dequeue (lines 153-154)
EnqueueCopies == p_pc = "copy" /\ p_pc' = "store"
DequeueCopies == c_pc = "copy" /\ c_pc' = "store"

\* C20: single-writer indices.  No step of enqueue modifies read_index, no step of dequeue
\* modifies write_index or a slot.  A successful enqueue appends its item to the slot numbered
\* by the old write_index, writes no other slot, and advances write_index by exactly one modulo
\* capacity + 2; a successful dequeue reads the slot numbered by the new read_index into its
\* destination, reads no other slot, and advances read_index by exactly one modulo capacity + 2.
C20_SingleWriter ==
  /\ [][ProducerStep => read_index' = read_index]_vars
  /\ [][ConsumerStep => (write_index' = write_index /\ slots' = slots)]_vars
  /\ [][(ProducerStep /\ ~EnqueueCopies) => SlotsWritten = {}]_vars
  /\ [][(ProducerStep /\ ~EnqueueTakesEffect) => write_index' = write_index]_vars
  /\ [][(ConsumerStep /\ ~DequeueCopies) => (SlotsRead(ConsumerThread) = {} /\ dst' = dst)]_vars
  /\ [][(ConsumerStep /\ ~DequeueTakesEffect) => read_index' = read_index]_vars
  /\ [][EnqueueCopies =>
          /\ SlotsWritten = {SlotNumbered(CurrentWriteIndex)}
          /\ Last(slots'[SlotNumbered(CurrentWriteIndex)]) = p_loc.item]_vars
  /\ [][EnqueueTakesEffect =>
          /\ Len(write_index') = Len(write_index) + 1
          /\ CurrentWriteIndex' = (CurrentWriteIndex + 1) % SlotCount]_vars
  /\ [][DequeueCopies =>
          LET s == SlotNumbered((CurrentReadIndex + 1) % SlotCount)
          IN  /\ SlotsRead(ConsumerThread) = {s}
              /\ \E k \in 1 .. Len(slots[s]) : dst' = slots[s][k]]_vars
  /\ [][DequeueTakesEffect =>
          /\ Len(read_index') = Len(read_index) + 1
          /\ CurrentReadIndex' = (CurrentReadIndex + 1) % SlotCount]_vars

\* C20 witness: enqueues and dequeues have succeeded until both indices wrapped round the ring,
\* and a dequeue has just returned true.
C20_Witness ==
  /\ status = "ready"
  /\ c_pc = "idle" /\ c_ret = "true"
  /\ Len(write_index) > SlotCount
  /\ Len(read_index) > SlotCount

=============================================================================
